---- MODULE Spec2Model ----
(***************************************************************************)
(* A model of abbrev_num (src/src/lib.rs): the abbreviation of an isize    *)
(* into a short string such as "10.5k".                                    *)
(*                                                                         *)
(* An isize has 64 bits and the Decimal the code rounds in has a 96-bit    *)
(* mantissa, so numbers are sequences of decimal digits, least significant *)
(* digit first and without high zeros (zero is the empty sequence).        *)
(* Strings are sequences of one-character strings.  Option<T> is a         *)
(* sequence of length at most one: None is << >> and Some(x) is <<x>>.     *)
(***************************************************************************)
EXTENDS Integers, Sequences, FiniteSets

None == << >>
Some(x) == <<x>>
IsSome(o) == Len(o) = 1
Unwrap(o) == o[1]
UnwrapOr(o, dflt) == IF Len(o) = 1 THEN o[1] ELSE dflt

(***************************************************************************)
(* Natural numbers of any size, as digit sequences.                        *)
(***************************************************************************)
\* d without its high zeros
RECURSIVE Trim(_)
Trim(d) ==
    IF d = << >> \/ d[Len(d)] # 0 THEN d ELSE Trim(SubSeq(d, 1, Len(d) - 1))

\* d without its one high zero, if it has one
TrimTop(d) ==
    SubSeq(d, 1, IF Len(d) > 0 /\ d[Len(d)] = 0 THEN Len(d) - 1 ELSE Len(d))

RECURSIVE FromInt(_)
FromInt(n) == IF n = 0 THEN << >> ELSE <<n % 10>> \o FromInt(n \div 10)

IsZero(d) == d = << >>
IsOdd(d) == d # << >> /\ d[1] % 2 = 1

\* a < b, for a and b of the same length, decided at or below digit i
RECURSIVE LessFrom(_, _, _)
LessFrom(a, b, i) ==
    IF i = 0 THEN FALSE
    ELSE IF a[i] # b[i] THEN a[i] < b[i]
    ELSE LessFrom(a, b, i - 1)

\* a < b
Less(a, b) == IF Len(a) # Len(b) THEN Len(a) < Len(b) ELSE LessFrom(a, b, Len(a))

\* 2 * d: a digit's carry never ripples, 2 * 9 + 1 = 19
Double(d) ==
    TrimTop([i \in 1..(Len(d) + 1) |->
               (IF i <= Len(d) THEN (2 * d[i]) % 10 ELSE 0)
             + (IF i > 1 /\ d[i - 1] >= 5 THEN 1 ELSE 0)])

\* d \div 2
Half(d) ==
    TrimTop([i \in 1..Len(d) |->
               (d[i] + (IF i < Len(d) /\ d[i + 1] % 2 = 1 THEN 10 ELSE 0)) \div 2])

\* 10^k * d
Shl10(d, k) == IF d = << >> THEN << >> ELSE [i \in 1..k |-> 0] \o d

\* d \div 10^k and d % 10^k
Shr10(d, k) == IF k >= Len(d) THEN << >> ELSE SubSeq(d, k + 1, Len(d))
Rem10(d, k) == Trim(SubSeq(d, 1, IF k < Len(d) THEN k ELSE Len(d)))

\* 5 * d
Times5(d) == Half(Shl10(d, 1))

RECURSIVE AddOne(_)
AddOne(d) ==
    IF d = << >> THEN <<1>>
    ELSE IF d[1] < 9 THEN <<d[1] + 1>> \o Tail(d)
    ELSE <<0>> \o AddOne(Tail(d))

\* a - b, for a >= b
RECURSIVE SubBorrow(_, _, _)
SubBorrow(a, b, borrow) ==
    IF a = << >> THEN << >>
    ELSE IF a[1] >= (IF b = << >> THEN 0 ELSE b[1]) + borrow
         THEN <<a[1] - (IF b = << >> THEN 0 ELSE b[1]) - borrow>>
              \o SubBorrow(Tail(a), IF b = << >> THEN << >> ELSE Tail(b), 0)
         ELSE <<a[1] + 10 - (IF b = << >> THEN 0 ELSE b[1]) - borrow>>
              \o SubBorrow(Tail(a), IF b = << >> THEN << >> ELSE Tail(b), 1)
Sub(a, b) == Trim(SubBorrow(a, b, 0))

\* the digits of d as a string, most significant digit first
DigitChar == <<"0", "1", "2", "3", "4", "5", "6", "7", "8", "9">>
DigitsToString(d) ==
    IF d = << >> THEN <<"0">>
    ELSE [i \in 1..Len(d) |-> DigitChar[d[Len(d) + 1 - i] + 1]]

\* 2^52, 2^53, 2^54, 2^63, 2^64, 2^95 and 2^96
TwoPow52 ==
    <<6, 9, 4, 0, 7, 3, 7, 2, 6, 9, 9, 5, 3, 0, 5, 4>>
TwoPow53 ==
    <<2, 9, 9, 0, 4, 7, 4, 5, 2, 9, 9, 1, 7, 0, 0, 9>>
TwoPow54 ==
    <<4, 8, 9, 1, 8, 4, 9, 0, 5, 8, 9, 3, 4, 1, 0, 8, 1>>
TwoPow63 ==
    <<8, 0, 8, 5, 7, 7, 4, 5, 8, 6, 3, 0, 2, 7, 3, 3, 2, 2, 9>>
TwoPow64 ==
    <<6, 1, 6, 1, 5, 5, 9, 0, 7, 3, 7, 0, 4, 4, 7, 6, 4, 4, 8, 1>>
TwoPow95 ==
    <<8, 6, 1, 5, 7, 9, 1, 7, 7, 6, 9, 7, 8, 6, 1, 2, 3, 1, 7, 5, 2, 1, 8,
      0, 4, 1, 6, 9, 3>>
TwoPow96 ==
    <<6, 3, 3, 0, 5, 9, 3, 4, 5, 3, 9, 5, 7, 3, 3, 4, 6, 2, 4, 1, 5, 2, 6,
      1, 8, 2, 2, 9, 7>>

(***************************************************************************)
(* isize and usize, 64 bits wide, lines 50 and 56.  An isize is a sign and *)
(* a magnitude; zero is not negative.                                      *)
(***************************************************************************)
IsizeMin == [neg |-> TRUE, mag |-> TwoPow63]
IsizeMax == [neg |-> FALSE, mag |-> Sub(TwoPow63, <<1>>)]

\* number.abs(): the negation of isize::MIN overflows, which panics in a
\* build with overflow checks and wraps to isize::MIN in one without
IsizeAbs(number) ==
    IF number = IsizeMin THEN [overflow |-> TRUE, value |-> IsizeMin]
    ELSE [overflow |-> FALSE, value |-> [neg |-> FALSE, mag |-> number.mag]]

\* value as usize: two's complement reinterpretation
AsUsize(value) == IF value.neg THEN Sub(TwoPow64, value.mag) ELSE value.mag

\* absolute.ilog10(), for absolute > 0
Ilog10(absolute) == Len(absolute) - 1

(***************************************************************************)
(* f64, line 71.  A finite nonzero double is neg, m, e with value          *)
(* m * 2^e and m < 2^53; a rounded one is normal, 2^52 <= m.  Operations   *)
(* round to nearest, ties to the even mantissa.                            *)
(***************************************************************************)
\* the double of mantissa r, which a carry may have taken to 2^53
Carried(r, e) ==
    IF r = TwoPow53 THEN [neg |-> FALSE, m |-> TwoPow52, e |-> e + 1]
    ELSE [neg |-> FALSE, m |-> r, e |-> e]

\* N * 2^e (plus less than one unit of N when sticky), N >= 2^53, rounded:
\* N is halved down to 54 bits, the bits that fall off kept in sticky, and
\* the last bit decides
RECURSIVE RoundToF64(_, _, _)
RoundToF64(N, e, sticky) ==
    LET half == Half(N)
    IN  IF ~Less(N, TwoPow54) THEN RoundToF64(half, e + 1, sticky \/ IsOdd(N))
        ELSE IF IsOdd(N) /\ (sticky \/ IsOdd(half)) THEN Carried(AddOne(half), e + 1)
        ELSE Carried(half, e + 1)

\* absolute as f64, for absolute > 0: exact below 2^53
UsizeAsF64(absolute) ==
    IF Less(absolute, TwoPow53) THEN [neg |-> FALSE, m |-> absolute, e |-> 0]
    ELSE RoundToF64(absolute, 0, FALSE)

\* N * 2^e / 10^k rounded, N doubled until the quotient has 54 bits
RECURSIVE DivideScaled(_, _, _)
DivideScaled(N, k, e) ==
    LET quotient == Shr10(N, k)
    IN  IF Less(quotient, TwoPow53) THEN DivideScaled(Double(N), k, e - 1)
        ELSE RoundToF64(quotient, e, ~IsZero(Rem10(N, k)))

\* x / 10_f64.powi(k) for x > 0: 10^k is a double for k <= 22, and so is
\* every product powi forms on the way, so the divisor is exactly 10^k
F64DivPowi10(x, k) == DivideScaled(x.m, k, x.e)

(***************************************************************************)
(* rust_decimal's Decimal, lines 72 to 79: neg, mant, scale with value     *)
(* mant / 10^scale, mant < 2^96 and scale <= 28.                           *)
(***************************************************************************)
MAX_SCALE == 28

\* the first loop of base2_to_decimal: 2^exponent2 = 5^exponent5 *
\* 10^exponent10, and the mantissa takes in the powers of five; a product
\* that leaves 96 bits is replaced by a halving that drops a bit
RECURSIVE TakeFives(_)
TakeFives(s) ==
    LET product == Times5(s.bits)
    IN  IF s.exponent5 <= 0 THEN s
        ELSE IF IsOdd(s.bits) /\ Less(product, TwoPow96)
             THEN TakeFives([s EXCEPT !.bits = product, !.exponent5 = @ - 1])
             ELSE TakeFives([s EXCEPT !.bits = Half(s.bits), !.exponent5 = @ - 1,
                                      !.exponent10 = @ + 1])

\* the second loop, for exponent2 > 0: the mantissa is divided by five
RECURSIVE GiveFives(_)
GiveFives(s) ==
    IF s.exponent5 >= 0 THEN s
    ELSE IF Less(s.bits, TwoPow95)
         THEN GiveFives([s EXCEPT !.bits = Double(s.bits), !.exponent5 = @ + 1,
                                  !.exponent10 = @ - 1])
         ELSE GiveFives([s EXCEPT !.bits = Shr10(Double(s.bits), 1), !.exponent5 = @ + 1])

\* exponent10 brought down to 0, unless the mantissa leaves 96 bits
RECURSIVE ScaleToZero(_)
ScaleToZero(s) ==
    IF s.exponent10 <= 0 THEN s
    ELSE IF Less(Shl10(s.bits, 1), TwoPow96)
         THEN ScaleToZero([s EXCEPT !.bits = Shl10(s.bits, 1), !.exponent10 = @ - 1])
         ELSE [s EXCEPT !.overflow = TRUE]

\* bits / 10 with a remainder of 5 or more rounded up
Div10HalfUp(bits) ==
    IF bits[1] >= 5 THEN AddOne(Shr10(bits, 1)) ELSE Shr10(bits, 1)

\* exponent10 brought up to -MAX_SCALE
RECURSIVE ScaleToMax(_)
ScaleToMax(s) ==
    IF s.overflow \/ s.exponent10 >= -MAX_SCALE THEN s
    ELSE IF Shr10(s.bits, 1) = << >> THEN [s EXCEPT !.bits = << >>, !.exponent10 = 0]
    ELSE ScaleToMax([s EXCEPT !.bits = Div10HalfUp(s.bits), !.exponent10 = @ + 1])

\* remove_excess_bits: decimal digits dropped until the mantissa has at
\* most 52 bits, the precision an f64 guarantees
RECURSIVE RemoveExcessBits(_)
RemoveExcessBits(s) ==
    IF ~s.overflow /\ s.exponent10 < 0 /\ ~Less(s.bits, TwoPow52)
    THEN RemoveExcessBits([s EXCEPT !.bits = Div10HalfUp(s.bits), !.exponent10 = @ + 1])
    ELSE s

\* multiples of ten removed from the representation
RECURSIVE RemoveTens(_)
RemoveTens(s) ==
    IF ~s.overflow /\ s.exponent10 < 0 /\ s.bits # << >> /\ s.bits[1] = 0
    THEN RemoveTens([s EXCEPT !.bits = Shr10(s.bits, 1), !.exponent10 = @ + 1])
    ELSE s

\* the Option<Decimal> base2_to_decimal returns
ToDecimal(s, neg) ==
    IF s.overflow THEN None
    ELSE Some([neg |-> neg, mant |-> s.bits, scale |-> -s.exponent10])

\* Decimal::from_f64(x) for a normal x: the mantissa of x lies 52 bits left
\* of its binary point
DecimalFromF64(x) ==
    ToDecimal(RemoveTens(RemoveExcessBits(ScaleToMax(ScaleToZero(GiveFives(TakeFives(
                  [bits |-> x.m, exponent5 |-> -x.e, exponent10 |-> x.e,
                   overflow |-> FALSE])))))),
              x.neg)

RoundingStrategy ==
    {"MidpointNearestEven", "MidpointAwayFromZero", "MidpointTowardZero", "ToZero",
     "AwayFromZero", "ToNegativeInfinity", "ToPositiveInfinity"}

\* whether the strategy adds one to the kept digits `value` of a decimal
\* of sign neg, given the k dropped digits `rest` and cap = 5 * 10^(k-1)
RoundsUp(strategy, neg, value, rest, cap) ==
    CASE strategy = "MidpointNearestEven" -> Less(cap, rest) \/ (rest = cap /\ IsOdd(value))
      [] strategy = "MidpointAwayFromZero" -> ~Less(rest, cap)
      [] strategy = "MidpointTowardZero" -> Less(cap, rest)
      [] strategy = "ToNegativeInfinity" -> neg /\ ~IsZero(rest)
      [] strategy = "ToPositiveInfinity" -> ~neg /\ ~IsZero(rest)
      [] strategy = "ToZero" -> FALSE
      [] strategy = "AwayFromZero" -> ~IsZero(rest)

\* d.round_dp_with_strategy(dp, strategy): d itself when it has no more
\* than dp decimal places
RoundDpWithStrategy(d, dp, strategy) ==
    LET k == d.scale - dp
        value == Shr10(d.mant, k)
    IN  IF dp >= d.scale THEN d
        ELSE [neg |-> d.neg,
              mant |-> IF RoundsUp(strategy, d.neg, value, Rem10(d.mant, k),
                                   Shl10(<<5>>, k - 1))
                       THEN AddOne(value) ELSE value,
              scale |-> dp]

\* d.normalize(): trailing zeros stripped, and zero made +0
Normalize(d) ==
    IF IsZero(d.mant) THEN [neg |-> FALSE, mant |-> << >>, scale |-> 0]
    ELSE ToDecimal(RemoveTens([bits |-> d.mant, exponent10 |-> -d.scale,
                               overflow |-> FALSE]), d.neg)[1]

\* the digits of a decimal of the given scale, with its point
Pointed(padded, scale) ==
    IF scale = 0 THEN padded
    ELSE SubSeq(padded, 1, Len(padded) - scale) \o <<".">>
         \o SubSeq(padded, Len(padded) - scale + 1, Len(padded))

\* n zeros, none when n is negative
Zeros(n) == [i \in 1..(IF n > 0 THEN n ELSE 0) |-> "0"]

\* Display of a Decimal: all of its scale digits after the point
DecimalToString(d) ==
    (IF d.neg THEN <<"-">> ELSE << >>)
    \o Pointed(Zeros(d.scale + 1 - Len(DigitsToString(d.mant)))
               \o DigitsToString(d.mant), d.scale)

(***************************************************************************)
(* abbrev_num, lines 50 to 80.                                             *)
(***************************************************************************)
\* ABBREVIATIONS, line 9
ABBREVIATIONS == << << >>, <<"k">>, <<"M">>, <<"B">>, <<"T">>, <<"P">>, <<"E">> >>

\* Options::default(), derived at line 13
DefaultOptions ==
    [precision |-> None, abbreviations |-> None, rounding_strategy |-> None]

\* slice::get
Get(table, index) == IF index + 1 <= Len(table) THEN Some(table[index + 1]) ELSE None

\* line 52
Zero == <<"0">>

\* line 56, in a build where abs wraps
Absolute(number) == AsUsize(IsizeAbs(number).value)

\* the tier taken from the number of digits instead of the exponent
LevelFromDigits(absolute) == (Ilog10(absolute) + 1) \div 3

\* line 57
Level(absolute) == Ilog10(absolute) \div 3

\* line 58
Sign(number) == IF number.neg THEN <<"-">> ELSE << >>

\* line 59
Precision(options) == UnwrapOr(options.precision, 1)

\* lines 61 to 65, before the `?`
Abbreviation(options, level) ==
    IF IsSome(options.abbreviations) THEN Get(Unwrap(options.abbreviations), level)
    ELSE Get(ABBREVIATIONS, level)

\* line 68 without the unit
UnscaledBare(sign, absolute, abbreviation) == sign \o DigitsToString(absolute)

\* line 68
Unscaled(sign, absolute, abbreviation) == sign \o DigitsToString(absolute) \o abbreviation

\* line 71 with the power of ten not tripled
ScaledByLevel(absolute, level) == F64DivPowi10(UsizeAsF64(absolute), level)

\* line 71
Scaled(absolute, level) == F64DivPowi10(UsizeAsF64(absolute), 3 * level)

\* lines 74 to 76 with ties away from zero as the default
StrategyHalfUp(options) == UnwrapOr(options.rounding_strategy, "MidpointAwayFromZero")

\* lines 74 to 76
Strategy(options) == UnwrapOr(options.rounding_strategy, "MidpointNearestEven")

\* lines 72 to 77, after the `?`
Rounded(decimal, options) ==
    RoundDpWithStrategy(decimal, Precision(options), Strategy(options))

\* line 79 without normalize()
FormattedAsRounded(sign, result, abbreviation) ==
    sign \o DecimalToString(result) \o abbreviation

\* line 79
Formatted(sign, result, abbreviation) ==
    sign \o DecimalToString(Normalize(result)) \o abbreviation

\* lines 72 to 79 with the sign carried by the decimal that is rounded
RoundedSigned(sign, decimal, options, abbreviation) ==
    IF decimal = None THEN None
    ELSE Some(Formatted(<< >>, Rounded([Unwrap(decimal) EXCEPT !.neg = sign # << >>],
                                       options), abbreviation))

\* lines 72 to 79, from the Option<Decimal> of line 72
RoundedAndFormatted(sign, decimal, options, abbreviation) ==
    IF decimal = None THEN None
    ELSE Some(Formatted(sign, Rounded(Unwrap(decimal), options), abbreviation))

\* lines 67 to 79
Abbreviated(number, options, absolute, abbreviation) ==
    LET level == Level(absolute)
        sign == Sign(number)
    IN  IF level = 0 THEN Some(Unscaled(sign, absolute, abbreviation))
        ELSE RoundedAndFormatted(sign, DecimalFromF64(Scaled(absolute, level)),
                                 options, abbreviation)

\* lines 55 to 79, with the options unwrapped
AbbrevNonZero(number, options) ==
    LET absolute == Absolute(number)
        abbreviation == Abbreviation(options, Level(absolute))
    IN  IF abbreviation = None THEN None
        ELSE Abbreviated(number, options, absolute, Unwrap(abbreviation))

\* abbrev_num without line 51: zero takes the path of the other numbers
\* below 1000
AbbrevNumZeroAsUnit(number, options) ==
    IF number.mag = << >>
    THEN Some(Unscaled(<< >>, << >>,
                       Unwrap(Abbreviation(UnwrapOr(options, DefaultOptions), 0))))
    ELSE AbbrevNonZero(number, UnwrapOr(options, DefaultOptions))

\* what abbrev_num(number, options) returns, an Option<String>, when line 56
\* does not panic
AbbrevNum(number, options) ==
    IF number.mag = << >> THEN Some(Zero)
    ELSE AbbrevNonZero(number, UnwrapOr(options, DefaultOptions))

(***************************************************************************)
(* The inputs of the model.                                                *)
(***************************************************************************)
\* the number Rust writes 1_566_450, from its groups <<1, 566, 450>>
FromGroups(g) ==
    Trim([j \in 1..(3 * Len(g)) |->
            (g[Len(g) - ((j - 1) \div 3)]
               \div (IF (j - 1) % 3 = 0 THEN 1 ELSE IF (j - 1) % 3 = 1 THEN 10 ELSE 100)) % 10])

MaxSmall == 10
MaxPrecision == 3

\* magnitudes below 1000
Units == {FromInt(n) : n \in 1..MaxSmall} \cup {FromGroups(<<150>>), FromGroups(<<999>>)}

\* magnitudes from 1000 on: the powers of 1000, the values next to a power,
\* ties and near ties of the rounding, the values of the tests, and values
\* of more than 53 bits
Thousands ==
    {Shl10(<<1>>, 3 * t) : t \in 1..6}
    \cup {FromGroups(g) : g \in
            {<<1, 250>>, <<10, 0>>, <<1, 500>>, <<2, 500>>, <<10, 500>>, <<999, 950>>,
             <<999, 999>>, <<1, 0, 500>>, <<1, 566, 450>>,
             <<999, 999, 999, 999, 999, 999>>, <<1, 250, 0, 0, 0, 0, 1>>,
             <<9, 223, 372, 36, 854, 775, 807>>}}

Magnitudes == Units \cup Thousands

Numbers ==
    {[neg |-> FALSE, mag |-> << >>], IsizeMin}
    \cup {[neg |-> neg, mag |-> mag] : neg \in BOOLEAN, mag \in Magnitudes}

CustomUnits ==
    << <<"_", "c", "0">>, <<"_", "c", "1">>, <<"_", "c", "2">>, <<"_", "c", "3">>,
       <<"_", "c", "4">>, <<"_", "c", "5">>, <<"_", "c", "6">> >>

OptionOf(S) == {None} \cup {Some(x) : x \in S}

OptionValues ==
    OptionOf([precision : OptionOf(0..MaxPrecision),
              abbreviations : OptionOf({CustomUnits}),
              rounding_strategy : OptionOf(RoundingStrategy)])

(***************************************************************************)
(* One call of abbrev_num.                                                 *)
(***************************************************************************)
VARIABLES number, options, pc, result
vars == <<number, options, pc, result>>

Init ==
    /\ number \in Numbers
    /\ options \in OptionValues
    /\ pc = "called"
    /\ result = None

\* the call returns.  When line 56 overflows this is the build without
\* overflow checks, where abs wraps
Return ==
    /\ pc = "called"
    /\ pc' = "returned"
    /\ result' = AbbrevNum(number, options)
    /\ UNCHANGED <<number, options>>

\* the call panics: line 56 is reached and overflows, in a build with
\* overflow checks
Panic ==
    /\ pc = "called"
    /\ number.mag # << >>
    /\ IsizeAbs(number).overflow
    /\ pc' = "panicked"
    /\ UNCHANGED <<number, options, result>>

Next == Return \/ Panic

Spec == Init /\ [][Next]_vars

(***************************************************************************)
(* What the properties read off a call: the tier and the units as the      *)
(* documentation defines them, and the parts of the returned text.         *)
(***************************************************************************)
Returned == pc = "returned"

NonZero == number.mag # << >>

\* the tier t of a magnitude: 1000^t <= magnitude < 1000^(t+1)
TierOf(mag) ==
    CHOOSE t \in 0..7 :
        /\ ~Less(mag, Shl10(<<1>>, 3 * t))
        /\ t < 7 => Less(mag, Shl10(<<1>>, 3 * t + 3))

Tier == TierOf(number.mag)

\* the documented default units
DocumentedUnits == << << >>, <<"k">>, <<"M">>, <<"B">>, <<"T">>, <<"P">>, <<"E">> >>

\* the units in force: the caller's when given, else the documented ones
UnitsInForce ==
    IF options # None /\ options[1].abbreviations # None
    THEN options[1].abbreviations[1]
    ELSE DocumentedUnits

\* the precision in force: the caller's when given, else 1
PrecisionInForce ==
    IF options # None /\ options[1].precision # None
    THEN options[1].precision[1]
    ELSE 1

\* the strategy in force: the caller's when given, else ties to even
StrategyInForce ==
    IF options # None /\ options[1].rounding_strategy # None
    THEN options[1].rounding_strategy[1]
    ELSE "MidpointNearestEven"

Label == UnitsInForce[Tier + 1]

SignText == IF number.neg THEN <<"-">> ELSE << >>

Text == Unwrap(result)

StartsWith(s, prefix) ==
    Len(prefix) <= Len(s) /\ SubSeq(s, 1, Len(prefix)) = prefix

EndsWith(s, suffix) ==
    Len(suffix) <= Len(s) /\ SubSeq(s, Len(s) - Len(suffix) + 1, Len(s)) = suffix

\* the returned text is sign, numeric part, unit
WellFormed ==
    /\ IsSome(result)
    /\ StartsWith(Text, SignText)
    /\ EndsWith(Text, Label)
    /\ Len(SignText) + Len(Label) < Len(Text)

\* the text between the sign and the unit
Numeric == SubSeq(Text, Len(SignText) + 1, Len(Text) - Len(Label))

PointAt(s) ==
    IF \E i \in 1..Len(s) : s[i] = "."
    THEN CHOOSE i \in 1..Len(s) : s[i] = "."
    ELSE 0

Whole(s) == IF PointAt(s) = 0 THEN s ELSE SubSeq(s, 1, PointAt(s) - 1)

Fraction(s) == IF PointAt(s) = 0 THEN << >> ELSE SubSeq(s, PointAt(s) + 1, Len(s))

IsDigits(s) == \A i \in 1..Len(s) : s[i] \in {DigitChar[d + 1] : d \in 0..9}

\* a decimal numeral: digits, or digits "." digits
IsNumeral(s) ==
    /\ Whole(s) # << >>
    /\ IsDigits(Whole(s))
    /\ IsDigits(Fraction(s))
    /\ PointAt(s) # 0 => Fraction(s) # << >>

Positive(mag) == [neg |-> FALSE, mag |-> mag]

Negative(mag) == [neg |-> TRUE, mag |-> mag]

OnlyUnits(units) ==
    Some([precision |-> None, abbreviations |-> Some(units), rounding_strategy |-> None])

Text1k == <<"1", "k">>
Text1M == <<"1", "M">>
Text10k == <<"1", "0", "k">>
Text999 == <<"9", "9", "9">>
Text1000k == <<"1", "0", "0", "0", "k">>
Text1000 == <<"1", "0", "0", "0">>
Text1p2k == <<"1", ".", "2", "k">>
Text1p2E == <<"1", ".", "2", "E">>
TextNeg1p5k == <<"-", "1", ".", "5", "k">>
TextNeg1p2k == <<"-", "1", ".", "2", "k">>

(***************************************************************************)
(* C1                                                                      *)
(***************************************************************************)
\* C1: for every nonzero number of tier t (1000^t <= |n| < 1000^(t+1)) a
\* returned result is present and is the sign, a decimal numeral and the
\* label at index t of the units in force; 999 gives "999", 1000 gives "1k",
\* 1_000_000 gives "1M", and 1000^t under the custom units gives "1" and the
\* custom label t
C1_TierSelectsLabel ==
    (Returned /\ NonZero) =>
        /\ Tier <= 6
        /\ WellFormed
        /\ IsNumeral(Numeric)
        /\ (number = Positive(FromGroups(<<999>>)) /\ options = None)
              => result = Some(Text999)
        /\ (number = Positive(FromGroups(<<1, 0>>)) /\ options = None)
              => result = Some(Text1k)
        /\ (number = Positive(FromGroups(<<1, 0, 0>>)) /\ options = None)
              => result = Some(Text1M)
        /\ \A t \in 1..6 :
              (number = Positive(Shl10(<<1>>, 3 * t)) /\ options = OnlyUnits(CustomUnits))
                 => result = Some(<<"1">> \o CustomUnits[t + 1])

\* a call with 1000^3 under the custom units has returned "1_c3"
C1_Witness ==
    /\ Returned
    /\ number = Positive(FromGroups(<<1, 0, 0, 0>>))
    /\ options = OnlyUnits(CustomUnits)
    /\ result = Some(<<"1">> \o CustomUnits[4])

(***************************************************************************)
(* C2                                                                      *)
(***************************************************************************)
\* |n| / 1000^t as an exact decimal, rounded to the precision in force under
\* the strategy in force, without trailing zeros
ExactRounded ==
    DecimalToString(Normalize(RoundDpWithStrategy(
        [neg |-> FALSE, mant |-> number.mag, scale |-> 3 * Tier],
        PrecisionInForce, StrategyInForce)))

\* C2: for a number of tier 1 or more the numeric part of a returned result
\* is the exact decimal value of |n| / 1000^t rounded to the precision in
\* force under the strategy in force
C2_ExactDecimalRounding ==
    (Returned /\ NonZero /\ Tier >= 1 /\ number # IsizeMin) =>
        /\ WellFormed
        /\ Numeric = ExactRounded

\* the same for the magnitudes of at most 15 digits
C2_ExactBelowTenPow15 ==
    (Returned /\ NonZero /\ Tier >= 1 /\ Less(number.mag, Shl10(<<1>>, 15))) =>
        /\ WellFormed
        /\ Numeric = ExactRounded

\* a call with 1_250_000_000_000_000_001 and no options has returned "1.2E"
C2_Lossy ==
    /\ Returned
    /\ number = Positive(FromGroups(<<1, 250, 0, 0, 0, 0, 1>>))
    /\ options = None
    /\ result = Some(Text1p2E)

(***************************************************************************)
(* C3                                                                      *)
(***************************************************************************)
\* C3: for the number zero a returned result is exactly "0", whatever the
\* options: no sign, no fraction, no label, also under custom units whose
\* label 0 is not empty
C3_ZeroIsBare ==
    (Returned /\ ~NonZero) => result = Some(<<"0">>)

\* a call with zero, custom units, precision 3 and a directed strategy has
\* returned
C3_Witness ==
    /\ Returned
    /\ ~NonZero
    /\ options = Some([precision |-> Some(3), abbreviations |-> Some(CustomUnits),
                       rounding_strategy |-> Some("AwayFromZero")])
    /\ CustomUnits[1] # << >>
    /\ result = Some(<<"0">>)

(***************************************************************************)
(* C4                                                                      *)
(***************************************************************************)
\* C4: for 0 < |n| < 1000 a returned result is the sign, the digits of |n|
\* and the label 0 of the units in force, whatever the precision and the
\* strategy
C4_BelowThousandVerbatim ==
    (Returned /\ NonZero /\ Less(number.mag, Shl10(<<1>>, 3))) =>
        result = Some(SignText \o DigitsToString(number.mag) \o UnitsInForce[1])

\* a call with -150 under the custom units and precision 0 has returned
\* "-150_c0"
C4_Witness ==
    /\ Returned
    /\ number = Negative(FromGroups(<<150>>))
    /\ options # None
    /\ options[1].abbreviations = Some(CustomUnits)
    /\ options[1].precision = Some(0)
    /\ result = Some(<<"-", "1", "5", "0">> \o CustomUnits[1])

(***************************************************************************)
(* C5                                                                      *)
(***************************************************************************)
\* C5: no call panics, whatever the number, the most negative isize
\* included
C5_NeverPanics == pc # "panicked"

(***************************************************************************)
(* C6                                                                      *)
(***************************************************************************)
\* C6: a call that has ended has an absent result exactly when the tier of
\* the number is above 6; for zero, every negative number and every tier
\* from 0 to 6 the result is present
C6_AbsentOnlyAboveTable ==
    pc # "called" =>
        (IsSome(result) <=> (~NonZero \/ Tier <= 6))

(***************************************************************************)
(* C7                                                                      *)
(***************************************************************************)
\* C7: for n > 0 the result of -n is "-" followed by the result of n under
\* the same options; -1500 gives "-1.5k", and toward negative infinity
\* -1250 gives "-1.2k", the magnitude rounded down
C7_SignSymmetry ==
    (Returned /\ NonZero /\ number.neg /\ number # IsizeMin) =>
        /\ AbbrevNum(Positive(number.mag), options) # None
        /\ result = Some(<<"-">> \o Unwrap(AbbrevNum(Positive(number.mag), options)))
        /\ (number.mag = FromGroups(<<1, 500>>) /\ options = None)
              => result = Some(TextNeg1p5k)
        /\ (number.mag = FromGroups(<<1, 250>>)
              /\ options = Some([precision |-> None, abbreviations |-> None,
                                 rounding_strategy |-> Some("ToNegativeInfinity")]))
              => result = Some(TextNeg1p2k)

\* a call with -1250 rounding toward negative infinity has returned "-1.2k"
C7_Witness ==
    /\ Returned
    /\ number = Negative(FromGroups(<<1, 250>>))
    /\ options = Some([precision |-> None, abbreviations |-> None,
                       rounding_strategy |-> Some("ToNegativeInfinity")])
    /\ result = Some(TextNeg1p2k)

(***************************************************************************)
(* C8                                                                      *)
(***************************************************************************)
\* C8: the numeric part of a returned result has no trailing zero after the
\* point and no point without digits, and at most as many fractional digits
\* as the precision in force; 1000 gives "1k" and 10_000 gives "10k"
C8_NoTrailingZeros ==
    (Returned /\ NonZero /\ Tier >= 1) =>
        /\ WellFormed
        /\ IsNumeral(Numeric)
        /\ Len(Fraction(Numeric)) <= PrecisionInForce
        /\ Fraction(Numeric) # << >>
              => Fraction(Numeric)[Len(Fraction(Numeric))] # "0"
        /\ (number = Positive(FromGroups(<<1, 0>>)) /\ options = None)
              => result = Some(Text1k)
        /\ (number = Positive(FromGroups(<<10, 0>>)) /\ options = None)
              => result = Some(Text10k)

\* a call with 1_000_500 at precision 3, whose rounded value is 1.000, has
\* returned "1M"
C8_Witness ==
    /\ Returned
    /\ number = Positive(FromGroups(<<1, 0, 500>>))
    /\ options = Some([precision |-> Some(3), abbreviations |-> None,
                       rounding_strategy |-> Some("ToZero")])
    /\ result = Some(Text1M)

(***************************************************************************)
(* C9                                                                      *)
(***************************************************************************)
\* the options with every field given, the unset ones as documented:
\* precision 1, the documented units, ties to even
Explicit(o) ==
    [precision |-> Some(IF o.precision = None THEN 1 ELSE o.precision[1]),
     abbreviations |-> Some(IF o.abbreviations = None THEN DocumentedUnits
                            ELSE o.abbreviations[1]),
     rounding_strategy |-> Some(IF o.rounding_strategy = None THEN "MidpointNearestEven"
                                ELSE o.rounding_strategy[1])]

AllUnset == [precision |-> None, abbreviations |-> None, rounding_strategy |-> None]

\* C9: a returned result is the one of the same call with every unset field
\* given its documented default (precision 1, the documented units, ties to
\* even): no options, the default options and the explicit defaults give
\* the same result, and each field left unset alone behaves as its default
\* whatever the other fields are
C9_Defaults ==
    Returned =>
        LET o == IF options = None THEN AllUnset ELSE options[1]
        IN  /\ o = AllUnset =>
                  /\ result = AbbrevNum(number, None)
                  /\ result = AbbrevNum(number, Some(AllUnset))
                  /\ result = AbbrevNum(number, Some(Explicit(AllUnset)))
            /\ o.precision = None
                  => result = AbbrevNum(number, Some([o EXCEPT !.precision = Some(1)]))
            /\ o.abbreviations = None
                  => result = AbbrevNum(number,
                                        Some([o EXCEPT !.abbreviations = Some(DocumentedUnits)]))
            /\ o.rounding_strategy = None
                  => result = AbbrevNum(number,
                                        Some([o EXCEPT !.rounding_strategy =
                                                          Some("MidpointNearestEven")]))

\* a call with 1250, a tie at one digit, and no options has returned "1.2k"
C9_Witness ==
    /\ Returned
    /\ number = Positive(FromGroups(<<1, 250>>))
    /\ options = None
    /\ result = Some(Text1p2k)

(***************************************************************************)
(* C10                                                                     *)
(***************************************************************************)
\* the numeric part is a numeral of value 1 or more and less than 1000
FromOneBelowThousand ==
    /\ IsNumeral(Numeric)
    /\ Len(Whole(Numeric)) <= 3
    /\ Whole(Numeric)[1] # "0"

\* C10 as stated: for a number of tier 1 or more the value of the numeric
\* part of a returned result is at least 1 and less than 1000
C10_BelowThousand ==
    (Returned /\ NonZero /\ Tier >= 1) =>
        /\ WellFormed
        /\ FromOneBelowThousand

\* C10: for a number of tier 1 or more the value of the numeric part of a
\* returned result is at least 1 and at most 1000; it is exactly 1000, under
\* the label of the tier of the unrounded magnitude, when the rounding
\* carries
C10_AtMostThousand ==
    (Returned /\ NonZero /\ Tier >= 1) =>
        /\ WellFormed
        /\ FromOneBelowThousand \/ Numeric = Text1000
        /\ (number = Positive(FromGroups(<<999, 950>>)) /\ options = None)
              => result = Some(Text1000k)

\* a call with 999_950 and no options has returned "1000k"
C10_Witness ==
    /\ Returned
    /\ number = Positive(FromGroups(<<999, 950>>))
    /\ options = None
    /\ result = Some(Text1000k)

====
